---- MODULE Spec2Model ----
(***************************************************************************)
(* Reconciliation engine of the ZPA modules: one behaviour runs one module *)
(* (kind) a bounded number of times against one remote service.  Each      *)
(* invocation of core is split at its remote calls: the read call          *)
(* (get-by-id or list-all), then the decision with its single mutating     *)
(* call and the outcome (exit_json / fail_json).                           *)
(***************************************************************************)
EXTENDS Integers, Sequences, FiniteSets, TLC

VARIABLES kind, remote, remote0, nextId, pc, params, presence, resolved, found,
          existing, calls, outcomes, warns, runs, prev, scheduler_id,
          groups0, conditions_obj, result, par, check_mode

vars == <<kind, remote, remote0, nextId, pc, params, presence, resolved, found,
          existing, calls, outcomes, warns, runs, prev, scheduler_id,
          groups0, conditions_obj, result, par, check_mode>>

\* the argument and the result of a direct call of map_conditions
mapvars == <<groups0, conditions_obj, result>>

(***************************************************************************)
(* Bounds of the model.                                                    *)
(***************************************************************************)
MaxRuns == 2

(***************************************************************************)
(* Python values.  Every value is a tagged tuple so that values of         *)
(* different Python types can be compared (None != "x", True != None).     *)
(***************************************************************************)
None == <<"None">>
S(x) == <<"str", x>>
True == <<"bool", "True">>
False == <<"bool", "False">>
L(seq) == <<"list", seq>>
Conds(groups) == <<"conds", groups>>
Triples(ts) == <<"triples", ts>>

(***************************************************************************)
(* Python dicts are functions from key strings to values.                  *)
(***************************************************************************)
EmptyDict == [k \in {} |-> None]

HasKey(d, k) == k \in DOMAIN d

\* dict.get(k): None when the key is missing
Get(d, k) == IF k \in DOMAIN d THEN d[k] ELSE None

\* dict.get(k, dflt)
GetOr(d, k, dflt) == IF k \in DOMAIN d THEN d[k] ELSE dflt

\* d.update(e): every key of e overwrites d, None values included
DictUpdate(d, e) ==
  [k \in DOMAIN d \cup DOMAIN e |-> IF k \in DOMAIN e THEN e[k] ELSE d[k]]

\* d[k] = v
SetKey(d, k, v) == [j \in DOMAIN d \cup {k} |-> IF j = k THEN v ELSE d[j]]

\* for attr in keys: d.pop(attr, None)
PopAll(d, keys) == [k \in DOMAIN d \ keys |-> d[k]]

\* mutant: every value counts as true
Truthy_always(v) == TRUE

\* mutant: an unset value counts as true
Truthy_unset_true(v) == v # False /\ v # S("") /\ v # L(<<>>)

\* Python truthiness of the values used here
Truthy(v) == v # None /\ v # False /\ v # S("") /\ v # L(<<>>)

Range(s) == {s[i] : i \in 1..Len(s)}

RECURSIVE SelectSeqBy(_, _)
\* the subsequence of field names of s that lie in the set keep
SelectSeqBy(s, keep) ==
  IF s = <<>> THEN <<>>
  ELSE (IF Head(s) \in keep THEN <<Head(s)>> ELSE <<>>) \o SelectSeqBy(Tail(s), keep)

(***************************************************************************)
(* The modules (resource kinds).                                           *)
(***************************************************************************)
Kinds == {"server", "approval", "timeout", "segroup", "schedule"}

\* the params list of each core, in declared order
ParamList(k) ==
  CASE k = "server" ->
         <<"id", "name", "description", "address", "enabled", "app_server_group_ids">>
    [] k = "approval" ->
         <<"id", "email_ids", "start_time", "end_time", "application_ids", "working_hours">>
    [] k = "timeout" ->
         <<"id", "name", "description", "policy_type", "action", "reauth_idle_timeout",
           "reauth_timeout", "operator", "rule_order", "conditions">>
    [] k = "segroup" ->
         <<"id", "name", "description", "enabled", "city_country", "country_code",
           "latitude", "longitude", "location", "is_public", "upgrade_day",
           "upgrade_time_in_secs", "dns_query_type", "override_version_profile",
           "version_profile_id", "use_in_dr_mode", "trusted_networks_ids">>
    [] k = "schedule" ->
         <<"customer_id", "enabled", "delete_disabled", "frequency", "frequency_interval">>

\* the natural key each resolver scans the listing for
NaturalKey(k) == IF k = "approval" THEN "email_ids" ELSE "name"

\* the keyword under which update passes the resolved id
IdArg(k) ==
  CASE k = "server" -> "server_id"
    [] k = "approval" -> "approval_id"
    [] k = "timeout" -> "rule_id"
    [] k = "segroup" -> "group_id"
    [] k = "schedule" -> "scheduler_id"

(***************************************************************************)
(* Normalizer, Differ and the sub-object mappers.                          *)
(***************************************************************************)
\* server-computed fields normalize_app strips (module_utils, outside src/)
AppComputedValues == {"id", "creation_time", "modified_by", "modified_time"}

normalize_app(app) == PopAll(app, AppComputedValues)

\* mutant: the time window is kept in the comparison
ApprovalComputedValues_id_only == {"id"}

ApprovalComputedValues == {"id", "start_time", "end_time"}

normalize_approval(approval) == PopAll(approval, ApprovalComputedValues)

\* deleteNone (module_utils, outside src/): drops every key whose value is None
deleteNone(d) == [k \in {j \in DOMAIN d : d[j] # None} |-> d[k]]

\* mutant: the natural key is excluded from the comparison as well
fields_to_exclude_with_key == {"id", "name", "email_ids"}

fields_to_exclude == {"id"}

\* mutant: the differing keys are reported last field first
Differ_reversed(desired, current, order) ==
  SelectSeqBy([i \in 1..Len(order) |-> order[Len(order) + 1 - i]],
              {key \in DOMAIN desired :
                 key \notin {"id"} /\ Get(current, key) # desired[key]})

\* the loop "for key, value in desired.items(): if key not in fields_to_exclude
\* and current.get(key) != value": the differing keys, in iteration order
Differ(desired, current, order) ==
  SelectSeqBy(order, {key \in DOMAIN desired :
                        key \notin fields_to_exclude /\ Get(current, key) # desired[key]})

\* str.upper() on the action strings in use
UpperStr(s) ==
  CASE s = "re_auth" -> "RE_AUTH"
    [] s = "Re_Auth" -> "RE_AUTH"
    [] OTHER -> s

\* value.upper(): only a str has the method
UpperRaises(v) == v[1] # "str"

Upper(v) == S(UpperStr(v[2]))

Ops(operands) == <<"ops", operands>>

\* mutant: an operand without rhs is kept
OperandKept_ignores_rhs(op) ==
  Get(op, "object_type") # None /\ Get(op, "lhs") # None

\* one operand of map_conditions: kept when object_type, lhs and rhs are all set
OperandKept(op) ==
  Get(op, "object_type") # None /\ Get(op, "lhs") # None /\ Get(op, "rhs") # None

RECURSIVE map_operands(_)
map_operands(operands) ==
  IF operands = <<>> THEN <<>>
  ELSE (IF OperandKept(Head(operands))
        THEN << <<Get(Head(operands), "object_type"), Get(Head(operands), "lhs"),
                  Get(Head(operands), "rhs")>> >>
        ELSE <<>>) \o map_operands(Tail(operands))

\* mutant: only the first group is flattened
map_groups_head(groups) ==
  IF groups = <<>> THEN <<>>
  ELSE IF Get(Head(groups), "operands")[1] = "ops"
       THEN map_operands(Get(Head(groups), "operands")[2])
       ELSE <<>>

RECURSIVE map_groups(_)
map_groups(groups) ==
  IF groups = <<>> THEN <<>>
  ELSE (IF Get(Head(groups), "operands")[1] = "ops"
        THEN map_operands(Get(Head(groups), "operands")[2])
        ELSE <<>>) \o map_groups(Tail(groups))

\* map_conditions iterates its argument: None is not iterable
map_conditions_raises(c) == c[1] # "conds"

map_conditions(c) == Triples(map_groups(c[2]))

(***************************************************************************)
(* The decision of core, computed from the desired record, the presence    *)
(* and the resolver's result.  A plan names the single step core takes     *)
(* next: a mutating call with its arguments, an outcome, or an exception.  *)
(***************************************************************************)
PlanExit(changed, dtag, data, diffs) ==
  [act |-> "exit", changed |-> changed, dtag |-> dtag, data |-> data,
   payload |-> EmptyDict, id |-> None, diffs |-> diffs]

PlanCall(act, id, payload, changed, data, diffs) ==
  [act |-> act, changed |-> changed, dtag |-> "record", data |-> data,
   payload |-> payload, id |-> id, diffs |-> diffs]

PlanRaise(diffs) ==
  [act |-> "raise", changed |-> FALSE, dtag |-> "none", data |-> EmptyDict,
   payload |-> EmptyDict, id |-> None, diffs |-> diffs]

PlanFail(msg, diffs) ==
  [act |-> "fail", changed |-> FALSE, dtag |-> msg, data |-> EmptyDict,
   payload |-> EmptyDict, id |-> None, diffs |-> diffs]

\* mutant: the fall-through outcome reports a change
NoChangeExit_changed(diffs) == PlanExit(TRUE, "empty", EmptyDict, diffs)

\* the last line of core: module.exit_json(changed=False, data={})
NoChangeExit(diffs) == PlanExit(FALSE, "empty", EmptyDict, diffs)

\* mutant: the delete branch looks at what the service holds at that moment
ShouldDelete_live(state, fnd, merged) ==
  /\ state = "absent" /\ fnd
  /\ \E i \in 1..Len(remote) : Get(remote[i], "id") = Get(merged, "id")

\* state == "absent" and existing is not None and existing.get("id") is not None
ShouldDelete(state, fnd, merged) ==
  state = "absent" /\ fnd /\ Get(merged, "id") # None

\* the delete branch of the timeout rule: no test of the id
ShouldDeleteRule(state, fnd) == state = "absent" /\ fnd

\* dict(arg=d.get(key), ...): src maps each keyword to the key it reads
BuildArgs(src, d) == [a \in DOMAIN src |-> Get(d, src[a])]

\* mutant: the resolved id is not restored after the update
Merge_keeps_desired_id(ex, desired) == DictUpdate(ex, desired)

\* mutant: only the fields the desired record sets overwrite the current ones
Merge_skips_unset(ex, desired) ==
  SetKey(DictUpdate(ex, deleteNone(desired)), "id", Get(ex, "id"))

\* id = existing.get("id"); existing.update(desired); existing["id"] = id
Merge(ex, desired) == SetKey(DictUpdate(ex, desired), "id", Get(ex, "id"))

ServerUpdateArgs ==
  [server_id |-> "id", name |-> "name", description |-> "description",
   address |-> "address", enabled |-> "enabled",
   app_server_group_ids |-> "app_server_group_ids"]

ServerCreateArgs ==
  [name |-> "name", description |-> "description", address |-> "address",
   enable |-> "enable", app_server_group_ids |-> "app_server_group_ids"]

\* mutant: a resource that was not resolved is never created
core_server_never_creates(server, state, fnd, ex) == NoChangeExit(<<>>)

\* zpa_application_server.core after the resolver
core_server(server, state, fnd, ex) ==
  LET desired_app == normalize_app(server)
      current_app == IF fnd THEN normalize_app(ex) ELSE EmptyDict
      diffs == Differ(desired_app, current_app, ParamList("server"))
      differences_detected == diffs # <<>>
      existing_server == IF fnd THEN Merge(ex, server) ELSE EmptyDict
  IN IF state = "present"
     THEN IF fnd
          THEN IF differences_detected
               THEN PlanCall("update", Get(existing_server, "id"),
                             deleteNone(BuildArgs(ServerUpdateArgs, existing_server)),
                             TRUE, EmptyDict, diffs)
               ELSE PlanExit(FALSE, "record", existing_server, diffs)
          ELSE PlanCall("create", None, deleteNone(BuildArgs(ServerCreateArgs, server)),
                        TRUE, EmptyDict, diffs)
     ELSE IF ShouldDelete(state, fnd, existing_server)
          THEN PlanCall("delete", Get(existing_server, "id"), EmptyDict, TRUE,
                        existing_server, diffs)
          ELSE NoChangeExit(diffs)

ApprovalUpdateArgs ==
  [approval_id |-> "id", email_ids |-> "email_ids", start_time |-> "start_time",
   end_time |-> "end_time", application_ids |-> "application_ids",
   working_hours |-> "working_hours"]

ApprovalCreateArgs ==
  [email_ids |-> "email_ids", start_time |-> "start_time", end_time |-> "end_time",
   application_ids |-> "application_ids", working_hours |-> "working_hours"]

\* zpa_pra_approval.core after the resolver
core_approval(approval, state, fnd, ex) ==
  LET desired_approval == normalize_approval(approval)
      current_approval == IF fnd THEN normalize_approval(ex) ELSE EmptyDict
      diffs == Differ(desired_approval, current_approval, ParamList("approval"))
      differences_detected == diffs # <<>>
      existing_approval == IF fnd THEN Merge(ex, approval) ELSE EmptyDict
  IN IF state = "present"
     THEN IF fnd
          THEN IF differences_detected
               THEN PlanCall("update", Get(existing_approval, "id"),
                             deleteNone(BuildArgs(ApprovalUpdateArgs, existing_approval)),
                             TRUE, EmptyDict, diffs)
               ELSE PlanExit(FALSE, "record", existing_approval, diffs)
          ELSE PlanCall("create", None,
                        deleteNone(BuildArgs(ApprovalCreateArgs, approval)),
                        TRUE, EmptyDict, diffs)
     ELSE IF ShouldDelete(state, fnd, existing_approval)
          THEN PlanCall("delete", Get(existing_approval, "id"), EmptyDict, TRUE,
                        existing_approval, diffs)
          ELSE NoChangeExit(diffs)

\* the keyword arguments of update_rule; action and conditions are computed
TimeoutUpdateRaises(existing_policy) ==
  \/ UpperRaises(GetOr(existing_policy, "action", S("")))
  \/ map_conditions_raises(GetOr(existing_policy, "conditions", Conds(<<>>)))

TimeoutUpdateArgs(existing_policy) ==
  [policy_type |-> S("timeout"),
   rule_id |-> GetOr(existing_policy, "id", None),
   name |-> GetOr(existing_policy, "name", None),
   description |-> GetOr(existing_policy, "description", None),
   action |-> Upper(GetOr(existing_policy, "action", S(""))),
   reauth_idle_timeout |-> GetOr(existing_policy, "reauth_idle_timeout", None),
   reauth_timeout |-> GetOr(existing_policy, "reauth_timeout", None),
   conditions |-> map_conditions(GetOr(existing_policy, "conditions", Conds(<<>>)))]

TimeoutCreateRaises(policy) ==
  map_conditions_raises(GetOr(policy, "conditions", Conds(<<>>)))

TimeoutCreateArgs(policy) ==
  [name |-> GetOr(policy, "name", None),
   description |-> GetOr(policy, "description", None),
   action |-> GetOr(policy, "action", None),
   reauth_idle_timeout |-> GetOr(policy, "reauth_idle_timeout", None),
   reauth_timeout |-> GetOr(policy, "reauth_timeout", None),
   conditions |-> map_conditions(GetOr(policy, "conditions", Conds(<<>>)))]

\* changed= of the exit_json that follows add_timeout_rule
TimeoutCreateChanged == FALSE

\* zpa_policy_timeout_rule.core after the resolver
core_timeout(policy, state, fnd, ex) ==
  LET existing_policy == IF fnd THEN Merge(ex, policy) ELSE EmptyDict
  IN IF state = "present"
     THEN IF fnd
          THEN IF TimeoutUpdateRaises(existing_policy)
               THEN PlanRaise(<<>>)
               ELSE PlanCall("update", Get(existing_policy, "id"),
                             deleteNone(TimeoutUpdateArgs(existing_policy)),
                             TRUE, EmptyDict, <<>>)
          ELSE IF TimeoutCreateRaises(policy)
               THEN PlanRaise(<<>>)
               ELSE PlanCall("create", None, deleteNone(TimeoutCreateArgs(policy)),
                             TimeoutCreateChanged, EmptyDict, <<>>)
     ELSE IF ShouldDeleteRule(state, fnd)
          THEN PlanCall("delete", Get(existing_policy, "id"), EmptyDict, TRUE,
                        existing_policy, <<>>)
          ELSE NoChangeExit(<<>>)

\* the coordinate strings in use, with their value rounded at the fixed
\* precision and whether they lie in range (module_utils, outside src/)
CoordRounded(v) ==
  CASE v = S("37.3382082") -> "37.338208"
    [] v = S("37.33820821") -> "37.338208"
    [] v = S("38.0000000") -> "38.000000"
    [] v = S("-121.8863286") -> "-121.886329"
    [] v = S("200.0") -> "200.000000"
    [] OTHER -> "nan"

diff_suppress_func_coordinate(old, new) ==
  old # None /\ new # None /\ CoordRounded(old) = CoordRounded(new)

validate_latitude_errors(v) == v = S("200.0")

validate_longitude_errors(v) == v = S("200.0")

SegroupUpdateArgs ==
  [group_id |-> "id", name |-> "name", description |-> "description",
   enabled |-> "enabled", city_country |-> "city_country",
   country_code |-> "country_code", latitude |-> "latitude",
   longitude |-> "longitude", is_public |-> "is_public", location |-> "location",
   upgrade_day |-> "upgrade_day", upgrade_time_in_secs |-> "upgrade_time_in_secs",
   override_version_profile |-> "override_version_profile",
   version_profile_id |-> "version_profile_id", use_in_dr_mode |-> "use_in_dr_mode",
   trusted_networks_ids |-> "trusted_networks_ids"]

SegroupCreateArgs ==
  [name |-> "name", description |-> "description", address |-> "address",
   enable |-> "enable", latitude |-> "latitude", location |-> "location",
   longitude |-> "longitude", city_country |-> "city_country",
   country_code |-> "country_code", is_public |-> "is_public",
   upgrade_day |-> "upgrade_day", upgrade_time_in_secs |-> "upgrade_time_in_secs",
   override_version_profile |-> "override_version_profile",
   version_profile_id |-> "version_profile_id", use_in_dr_mode |-> "use_in_dr_mode",
   trusted_networks_ids |-> "trusted_networks_ids"]

\* the latitude / longitude block of the update branch: existing_lat is read
\* from the record the desired values were already merged into
SegroupCoordinate(existing_group, group, field) ==
  LET existing_c == Get(existing_group, field)
      new_c == Get(group, field)
  IN IF new_c # None
     THEN IF diff_suppress_func_coordinate(existing_c, new_c)
          THEN existing_c
          ELSE Get(existing_group, field)
     ELSE existing_c

\* mutant: the desired record is populated before is_public is read
group_initial_populated == [is_public |-> None]

\* group = dict() as it is when core reads group["is_public"]
group_initial == EmptyDict

\* group["is_public"] on a dict without the key raises KeyError
segroup_prelude_raises == ~HasKey(group_initial, "is_public")

\* zpa_service_edge_groups.core after the resolver
core_segroup(group, state, fnd, ex) ==
  LET merged == IF fnd THEN Merge(ex, group) ELSE EmptyDict
      latitude == Get(group, "latitude")
      longitude == Get(group, "longitude")
      existing_group ==
        IF fnd
        THEN SetKey(SetKey(merged, "latitude", SegroupCoordinate(merged, group, "latitude")),
                    "longitude", SegroupCoordinate(merged, group, "longitude"))
        ELSE EmptyDict
  IN IF state = "present"
     THEN IF /\ latitude # None /\ longitude # None
             /\ (validate_latitude_errors(latitude) \/ validate_longitude_errors(longitude))
          THEN PlanFail("validation", <<>>)
          ELSE IF fnd
               THEN PlanCall("update", Get(existing_group, "id"),
                             deleteNone(BuildArgs(SegroupUpdateArgs, existing_group)),
                             TRUE, EmptyDict, <<>>)
               ELSE PlanCall("create", None,
                             deleteNone(BuildArgs(SegroupCreateArgs, group)),
                             TRUE, EmptyDict, <<>>)
     ELSE IF ShouldDelete(state, fnd, merged)
          THEN PlanCall("delete", Get(merged, "id"), EmptyDict, TRUE, merged, <<>>)
          ELSE NoChangeExit(<<>>)

ScheduleFields == <<"enabled", "delete_disabled", "frequency", "frequency_interval">>

\* mutant: only the enabled flag is compared
ScheduleDiffer_enabled_only(schedule, p) ==
  IF Get(schedule, "enabled") # Get(p, "enabled") THEN <<"enabled">> ELSE <<>>

\* the loop over (key, current_value, desired_value): no field is excluded
ScheduleDiffer(schedule, p) ==
  SelectSeqBy(ScheduleFields,
              {key \in Range(ScheduleFields) : Get(schedule, key) # Get(p, key)})

\* zpa_app_connector_assistant_schedule.core after get_connector_schedule
core_schedule(p, state, fnd, schedule) ==
  LET schedule_id == IF fnd THEN Get(schedule, "id") ELSE None
      diffs == IF fnd THEN ScheduleDiffer(schedule, p) ELSE <<>>
      differences_detected == diffs # <<>>
  IN IF ~fnd
     THEN IF Truthy(Get(p, "enabled"))
          THEN PlanCall("create", None,
                        [frequency |-> Get(p, "frequency"),
                         frequency_interval |-> Get(p, "frequency_interval"),
                         delete_disabled |-> Get(p, "delete_disabled")],
                        TRUE, EmptyDict, diffs)
          ELSE PlanExit(FALSE, "message", EmptyDict, diffs)
     ELSE IF differences_detected /\ Truthy(schedule_id)
          THEN PlanCall("update", schedule_id,
                        [scheduler_id |-> schedule_id,
                         customer_id |-> Get(p, "customer_id"),
                         enabled |-> Get(p, "enabled"),
                         delete_disabled |-> Get(p, "delete_disabled"),
                         frequency |-> Get(p, "frequency"),
                         frequency_interval |-> Get(p, "frequency_interval")],
                        TRUE, EmptyDict, diffs)
          ELSE IF ~Truthy(schedule_id)
               THEN PlanFail("schedule id not found", diffs)
               ELSE PlanExit(FALSE, "message", EmptyDict, diffs)

\* the decision of the module under execution
core(k, p, state, fnd, ex) ==
  CASE k = "server" -> core_server(p, state, fnd, ex)
    [] k = "approval" -> core_approval(p, state, fnd, ex)
    [] k = "timeout" -> core_timeout(p, state, fnd, ex)
    [] k = "segroup" -> core_segroup(p, state, fnd, ex)
    [] k = "schedule" -> core_schedule(p, state, fnd, ex)

(***************************************************************************)
(* The inputs: the desired records a caller can pass to each module, and   *)
(* the listings the remote service can hold when the module starts.        *)
(***************************************************************************)
DesiredSpecs(k) ==
  CASE k = "server" ->
         {[id |-> i, name |-> n, description |-> d, address |-> None, enabled |-> e,
           app_server_group_ids |-> None] :
            i \in {None, S("1"), S("9")}, n \in {None, S("a"), S("b")},
            d \in {None, S("x"), S("y")}, e \in {True, False}}
    [] k = "approval" ->
         {[id |-> i, email_ids |-> m, start_time |-> t, end_time |-> None,
           application_ids |-> a, working_hours |-> None] :
            i \in {None, S("1"), S("9")},
            m \in {None, L(<<"u1">>), L(<<"u2">>), L(<<"u2", "u1">>)},
            t \in {None, S("t1")},
            a \in {None, L(<<"app1">>), L(<<"app2">>), L(<<"app2", "app1">>)}}
    [] k = "timeout" ->
         {[id |-> i, name |-> n, description |-> d, policy_type |-> None, action |-> a,
           reauth_idle_timeout |-> S("600"), reauth_timeout |-> S("1200"),
           operator |-> None, rule_order |-> None, conditions |-> c] :
            i \in {None, S("1"), S("9")}, n \in {S("a"), S("b")},
            d \in {None, S("x")}, a \in {None, S("RE_AUTH"), S("re_auth")},
            c \in {None,
                   Conds(<<[operator |-> S("OR"), negated |-> False,
                            operands |-> Ops(<<[object_type |-> S("APP"),
                                                lhs |-> S("id"), rhs |-> S("7")],
                                               [object_type |-> S("APP"),
                                                lhs |-> S("id"), rhs |-> None]>>)]>>)}}
    [] k = "segroup" ->
         {[id |-> i, name |-> n, description |-> d, enabled |-> None,
           city_country |-> None, country_code |-> None, latitude |-> la,
           longitude |-> lo, location |-> None, is_public |-> pub,
           upgrade_day |-> S("SUNDAY"), upgrade_time_in_secs |-> S("66600"),
           dns_query_type |-> None, override_version_profile |-> None,
           version_profile_id |-> S("0"), use_in_dr_mode |-> None,
           trusted_networks_ids |-> None] :
            i \in {None, S("1")}, n \in {S("a"), S("b")}, d \in {None},
            la \in {None, S("37.3382082"), S("37.33820821"), S("200.0")},
            lo \in {None, S("-121.8863286"), S("200.0")}, pub \in {None, True}}
    [] k = "schedule" ->
         {[customer_id |-> S("c"), enabled |-> e, delete_disabled |-> dd,
           frequency |-> S("days"), frequency_interval |-> fi] :
            e \in {None, True, False}, dd \in {None, True, False},
            fi \in {S("5"), S("7")}}

\* the choices of the state parameter each module declares
PresenceChoices(k) == IF k = "schedule" THEN {"present"} ELSE {"present", "absent"}

InitialRemote(k) ==
  CASE k = "server" ->
         {<<>>,
          <<[id |-> S("1"), name |-> S("a"), description |-> S("x"), enabled |-> True]>>,
          <<[id |-> S("1"), name |-> S("a"), description |-> S("x"), enabled |-> True],
            [id |-> S("2"), name |-> S("a"), enabled |-> False]>>}
    [] k = "approval" ->
         {<<>>,
          <<[id |-> S("1"), email_ids |-> L(<<"u1">>), start_time |-> S("t0"),
             end_time |-> S("t9"), application_ids |-> L(<<"app1">>)]>>,
          <<[id |-> S("1"), email_ids |-> L(<<"u1">>), start_time |-> S("t0"),
             end_time |-> S("t9"), application_ids |-> L(<<"app1">>)],
            [id |-> S("2"), email_ids |-> L(<<"u1">>), application_ids |-> L(<<"app2">>)]>>,
          <<[id |-> S("1"), email_ids |-> L(<<"u1", "u2">>), start_time |-> S("t0"),
             end_time |-> S("t9"), application_ids |-> L(<<"app1", "app2">>)]>>}
    [] k = "timeout" ->
         {<<>>,
          <<[id |-> S("1"), name |-> S("a"), description |-> S("x"),
             action |-> S("RE_AUTH"), reauth_idle_timeout |-> S("600"),
             reauth_timeout |-> S("1200"),
             conditions |-> Triples(<< <<S("APP"), S("id"), S("7")>> >>)]>>,
          <<[id |-> S("1"), name |-> S("a"), description |-> S("x"),
             action |-> S("RE_AUTH"), reauth_idle_timeout |-> S("600"),
             reauth_timeout |-> S("1200"),
             conditions |-> Triples(<< <<S("APP"), S("id"), S("7")>> >>)],
            [id |-> S("2"), name |-> S("a"), action |-> S("RE_AUTH"),
             reauth_idle_timeout |-> S("600"), reauth_timeout |-> S("1200"),
             conditions |-> Triples(<<>>)]>>}
    [] k = "segroup" ->
         {<<>>,
          <<[id |-> S("1"), name |-> S("a"), latitude |-> S("37.3382082"),
             longitude |-> S("-121.8863286"), is_public |-> S("FALSE")]>>,
          <<[id |-> S("1"), name |-> S("a"), latitude |-> S("37.3382082"),
             longitude |-> S("-121.8863286"), is_public |-> S("FALSE")],
            [id |-> S("2"), name |-> S("a"), latitude |-> S("38.0000000"),
             longitude |-> S("-121.8863286"), is_public |-> S("FALSE")]>>}
    [] k = "schedule" ->
         {<<>>,
          <<[id |-> S("1"), enabled |-> True, delete_disabled |-> True,
             frequency |-> S("days"), frequency_interval |-> S("5")]>>,
          <<[enabled |-> True, delete_disabled |-> True,
             frequency |-> S("days"), frequency_interval |-> S("5")]>>}

\* identifiers the remote service assigns to created resources
IdPool == <<"1", "2", "3", "4", "5", "6", "7", "8">>

(***************************************************************************)
(* The Resolver.                                                           *)
(***************************************************************************)
\* which read call the resolver issues
ReadCall(k, p) ==
  IF k = "schedule" THEN "get"
  ELSE IF Get(p, "id") # None THEN "get"
  ELSE IF Get(p, NaturalKey(k)) # None THEN "list"
  ELSE "none"

\* mutant: the name branch is an "if", so that a listing follows the get
ResolverCalls_both(k, p) ==
  IF ReadCall(k, p) = "none" THEN <<>>
  ELSE IF ReadCall(k, p) = "get" /\ k # "schedule" THEN <<"get", "list">>
  ELSE <<ReadCall(k, p)>>

\* the read calls the resolver issues, in order: the branches of its
\* if / elif exclude one another
ResolverCalls(k, p) == IF ReadCall(k, p) = "none" THEN <<>> ELSE <<ReadCall(k, p)>>

\* indices of the listing whose field key holds val
Matches(listing, key, val) == {i \in 1..Len(listing) : Get(listing[i], key) = val}

Min(set) == CHOOSE i \in set : \A j \in set : i <= j

Max(set) == CHOOSE i \in set : \A j \in set : i >= j

\* mutant: no module breaks out of the loop
ScanPick_last(k, set) == Max(set)

\* the loop over the listing: the first match with break, the last without
ScanPick(k, set) == IF k = "segroup" THEN Max(set) ELSE Min(set)

\* index in the listing of the resource the read call resolves, 0 when none
ResolveIndex(k, p, listing) ==
  LET byId == Matches(listing, "id", Get(p, "id"))
      byKey == Matches(listing, NaturalKey(k), Get(p, NaturalKey(k)))
  IN CASE ReadCall(k, p) = "none" -> 0
       [] k = "schedule" -> IF Len(listing) > 0 /\ DOMAIN listing[1] # {} THEN 1 ELSE 0
       [] k # "schedule" /\ ReadCall(k, p) = "get" -> IF byId = {} THEN 0 ELSE Min(byId)
       [] k # "schedule" /\ ReadCall(k, p) = "list" ->
            IF byKey = {} THEN 0 ELSE ScanPick(k, byKey)

(***************************************************************************)
(* The Remote Resource Client, as the service behind it behaves.           *)
(***************************************************************************)
\* the record the service stores for a payload: the resolved id moves to id
Stored(k, payload, id) == SetKey(PopAll(payload, {IdArg(k)}), "id", id)

RemoteCreate(k, listing, payload, n) == Append(listing, Stored(k, payload, S(IdPool[n])))

RemoteUpdate(k, listing, payload, id) ==
  [i \in 1..Len(listing) |->
     IF Get(listing[i], "id") = id THEN Stored(k, payload, id) ELSE listing[i]]

RECURSIVE RemoteDelete(_, _)
RemoteDelete(listing, id) ==
  IF listing = <<>> THEN <<>>
  ELSE (IF Get(Head(listing), "id") = id THEN <<>> ELSE <<Head(listing)>>)
       \o RemoteDelete(Tail(listing), id)

\* status codes delete can return, and the largest the modules take as success
DeleteCodes == {200, 204, 299, 300, 404, 500}

SuccessMax == 299

\* mutant: the boundary status itself counts as a failure
IsSoftFailure_inclusive(code) == code >= SuccessMax

\* if code > 299: the delete is reported as a no-change outcome
IsSoftFailure(code) == code > SuccessMax

(***************************************************************************)
(* Calls and outcomes.                                                     *)
(***************************************************************************)
\* one remote call: the operation, the id it is keyed by, its payload and how
\* the client answered ("ok", "raised", "conflict", "falsy", or "status" with
\* the status code delete returned)
Call(op, id, payload, res) ==
  [op |-> op, id |-> id, payload |-> payload, res |-> res, code |-> 0]

DeleteCall(id, code) ==
  [op |-> "delete", id |-> id, payload |-> EmptyDict, res |-> "status", code |-> code]

\* module.exit_json(changed=..., data=...)
ExitJson(changed, dtag, data) ==
  [type |-> "exit", changed |-> changed, dtag |-> dtag, data |-> data, msg |-> ""]

\* main: module.fail_json(msg=to_native(e), exception=format_exc())
FailJson ==
  [type |-> "fail", changed |-> FALSE, dtag |-> "none", data |-> EmptyDict,
   msg |-> "exception"]

\* core: module.fail_json(msg=...) with a message of its own
FailMsg(m) == [FailJson EXCEPT !.msg = m]

\* mutant: the exception of a remote call is dropped without an outcome
OnFault_swallow(outs) == outs

\* an exception of a remote call ends the invocation in fail_json
OnFault(outs) == Append(outs, FailJson)

\* scheduler_id = 'some_default_or_retrieved_id'
PlaceholderId == S("some_default_or_retrieved_id")

\* mutant: every module swallows the conflict
ConflictOutcome_swallow(k, outs) == outs

\* the create call reports that the resource already exists: the connector
\* schedule swallows the exception and returns, the other modules let it
\* reach main
ConflictOutcome(k, outs) == IF k = "schedule" THEN outs ELSE OnFault(outs)

Plan == core(kind, params, presence, found, existing)

NoPrev == [valid |-> FALSE, ok |-> FALSE, calls |-> <<>>]

Init ==
  /\ kind \in Kinds
  /\ remote \in InitialRemote(kind)
  /\ remote0 = remote
  /\ nextId = Len(remote) + 1
  /\ pc = "idle"
  /\ params = EmptyDict
  /\ presence = "present"
  /\ resolved = FALSE
  /\ found = FALSE
  /\ existing = EmptyDict
  /\ calls = <<>>
  /\ outcomes = <<>>
  /\ warns = <<>>
  /\ runs = 0
  /\ prev = NoPrev
  /\ scheduler_id = None
  /\ groups0 = <<>>
  /\ conditions_obj = Conds(<<>>)
  /\ result = None
  /\ par = <<>>
  /\ check_mode = FALSE

\* the values the argument_spec of the timeout rule admits for action
ActionChoices == {S("RE_AUTH")}

\* AnsibleModule(argument_spec=...) ends the invocation in fail_json when a
\* parameter with choices holds another value
ArgumentsRejected(k, p) ==
  k = "timeout" /\ Get(p, "action") # None /\ Get(p, "action") \notin ActionChoices

\* main() builds the module and calls core(module); the service edge group
\* core raises before its first remote call.  check_mode is module.check_mode,
\* which AnsibleModule sets and no core reads
Start(p, st) ==
  /\ runs' = runs + 1
  /\ params' = p
  /\ presence' = st
  /\ resolved' = FALSE
  /\ found' = FALSE
  /\ existing' = EmptyDict
  /\ calls' = <<>>
  /\ warns' = <<>>
  /\ IF ArgumentsRejected(kind, p)
     THEN pc' = "done" /\ outcomes' = <<FailMsg("argument")>>
     ELSE IF kind = "segroup" /\ segroup_prelude_raises
          THEN pc' = "done" /\ outcomes' = <<FailJson>>
          ELSE pc' = "resolve" /\ outcomes' = <<>>
  /\ remote0' = remote
  /\ scheduler_id' = None
  /\ UNCHANGED <<kind, remote, nextId, mapvars, par>>

\* the first invocation of the module, with any desired record
Invoke(p, st) ==
  /\ pc = "idle"
  /\ prev' = prev
  /\ check_mode' \in BOOLEAN
  /\ Start(p, st)

\* the same task is run again against the remote state the last run left
Rerun ==
  /\ pc = "done"
  /\ runs < MaxRuns
  /\ prev' = [valid |-> TRUE,
              ok |-> (Len(outcomes) = 1 /\ outcomes[1].type = "exit"),
              calls |-> calls]
  /\ check_mode' = check_mode
  /\ Start(params, presence)

\* the resolver's read call returns
Resolve ==
  /\ pc = "resolve"
  /\ LET rc == ResolverCalls(kind, params)
         i == ResolveIndex(kind, params, remote)
     IN /\ calls' = calls \o
                      [n \in 1..Len(rc) |->
                         Call(rc[n], IF rc[n] = "get" /\ kind # "schedule"
                                     THEN Get(params, "id") ELSE None,
                              EmptyDict, "ok")]
        /\ resolved' = TRUE
        /\ found' = (i # 0)
        /\ existing' = IF i # 0 THEN remote[i] ELSE EmptyDict
        /\ scheduler_id' = IF kind = "schedule" /\ i # 0 THEN Get(remote[i], "id") ELSE None
  /\ pc' = "decide"
  /\ UNCHANGED <<kind, check_mode, remote, remote0, nextId, params, presence, outcomes, warns, runs, prev, mapvars, par>>

\* the resolver's read call raises: fail_json
ResolveFault ==
  /\ pc = "resolve"
  /\ ReadCall(kind, params) # "none"
  /\ calls' = Append(calls, Call(ReadCall(kind, params), None, EmptyDict, "raised"))
  /\ outcomes' = OnFault(outcomes)
  /\ pc' = "done"
  /\ UNCHANGED <<kind, check_mode, remote, remote0, nextId, params, presence, resolved, found, existing, warns, runs, prev, scheduler_id, mapvars, par>>

\* exit_json without a mutating call
Exit ==
  /\ pc = "decide"
  /\ Plan.act = "exit"
  /\ outcomes' = Append(outcomes, ExitJson(Plan.changed, Plan.dtag, Plan.data))
  /\ warns' = Plan.diffs
  /\ pc' = "done"
  /\ UNCHANGED <<kind, check_mode, remote, remote0, nextId, params, presence, resolved, found, existing, calls, runs, prev, scheduler_id, mapvars, par>>

\* core raises while it builds the arguments of a call; main reports fail_json
RaiseInCore ==
  /\ pc = "decide"
  /\ Plan.act = "raise"
  /\ outcomes' = Append(outcomes, FailJson)
  /\ warns' = Plan.diffs
  /\ pc' = "done"
  /\ UNCHANGED <<kind, check_mode, remote, remote0, nextId, params, presence, resolved, found, existing, calls, runs, prev, scheduler_id, mapvars, par>>

\* core itself calls fail_json
Fail ==
  /\ pc = "decide"
  /\ Plan.act = "fail"
  /\ outcomes' = Append(outcomes, FailMsg(Plan.dtag))
  /\ warns' = Plan.diffs
  /\ pc' = "done"
  /\ UNCHANGED <<kind, check_mode, remote, remote0, nextId, params, presence, resolved, found, existing, calls, runs, prev, scheduler_id, mapvars, par>>

\* the create call returns, or reports that the resource already exists
Create(res) ==
  /\ pc = "decide"
  /\ Plan.act = "create"
  /\ calls' = Append(calls, Call("create", None, Plan.payload, res))
  /\ warns' = Plan.diffs
  /\ pc' = "done"
  /\ IF res = "ok"
     THEN /\ remote' = RemoteCreate(kind, remote, Plan.payload, nextId)
          /\ nextId' = nextId + 1
          /\ outcomes' =
               Append(outcomes,
                      IF kind = "schedule" THEN ExitJson(Plan.changed, "message", EmptyDict)
                      ELSE ExitJson(Plan.changed, "record",
                                    Stored(kind, Plan.payload, S(IdPool[nextId]))))
     ELSE /\ UNCHANGED <<remote, nextId>>
          /\ outcomes' = ConflictOutcome(kind, outcomes)
  /\ scheduler_id' = IF res = "conflict" /\ kind = "schedule"
                     THEN PlaceholderId ELSE scheduler_id
  /\ UNCHANGED <<kind, check_mode, remote0, params, presence, resolved, found, existing, runs, prev, mapvars, par>>

\* the update call returns
Update(res) ==
  /\ pc = "decide"
  /\ Plan.act = "update"
  /\ res = "falsy" => kind = "schedule"
  /\ calls' = Append(calls, Call("update", Plan.id, Plan.payload, res))
  /\ warns' = Plan.diffs
  /\ pc' = "done"
  /\ IF res = "ok"
     THEN /\ remote' = RemoteUpdate(kind, remote, Plan.payload, Plan.id)
          /\ outcomes' =
               Append(outcomes,
                      IF kind = "schedule" THEN ExitJson(Plan.changed, "message", EmptyDict)
                      ELSE ExitJson(Plan.changed, "record",
                                    Stored(kind, Plan.payload, Plan.id)))
     ELSE /\ UNCHANGED remote
          /\ outcomes' = Append(outcomes, FailJson)
  /\ UNCHANGED <<kind, check_mode, remote0, nextId, params, presence, resolved, found, existing, runs, prev, scheduler_id, mapvars, par>>

\* the delete call returns a status code
Delete(code) ==
  /\ pc = "decide"
  /\ Plan.act = "delete"
  /\ calls' = Append(calls, DeleteCall(Plan.id, code))
  /\ warns' = Plan.diffs
  /\ pc' = "done"
  /\ IF IsSoftFailure(code)
     THEN /\ UNCHANGED remote
          /\ outcomes' = Append(outcomes, ExitJson(FALSE, "none", EmptyDict))
     ELSE /\ remote' = RemoteDelete(remote, Plan.id)
          /\ outcomes' = Append(outcomes, ExitJson(Plan.changed, "record", Plan.data))
  /\ UNCHANGED <<kind, check_mode, remote0, nextId, params, presence, resolved, found, existing, runs, prev, scheduler_id, mapvars, par>>

\* the mutating call raises: main reports fail_json
MutateFault ==
  /\ pc = "decide"
  /\ Plan.act \in {"create", "update", "delete"}
  /\ calls' = Append(calls, Call(Plan.act, Plan.id, Plan.payload, "raised"))
  /\ outcomes' = OnFault(outcomes)
  /\ warns' = Plan.diffs
  /\ pc' = "done"
  /\ UNCHANGED <<kind, check_mode, remote, remote0, nextId, params, presence, resolved, found, existing, runs, prev, scheduler_id, mapvars, par>>

Next ==
  \/ \E p \in DesiredSpecs(kind), st \in PresenceChoices(kind) : Invoke(p, st)
  \/ Rerun
  \/ Resolve
  \/ ResolveFault
  \/ Exit
  \/ RaiseInCore
  \/ Fail
  \/ \E res \in {"ok", "conflict"} : Create(res)
  \/ \E res \in {"ok", "falsy"} : Update(res)
  \/ \E code \in DeleteCodes : Delete(code)
  \/ MutateFault

Spec == Init /\ [][Next]_vars

(***************************************************************************)
(* map_conditions called on its own: the argument is any list of condition *)
(* groups within the bounds, given in any order of its groups.             *)
(***************************************************************************)
MaxGroups == 2

MaxOperands == 2

SeqsUpTo(set, n) == UNION {[1..k -> set] : k \in 0..n}

\* the operand dicts: complete, or with one of the three fields unset
OperandChoices ==
  {[object_type |-> S("APP"), lhs |-> S("id"), rhs |-> S("7")],
   [object_type |-> S("APP"), lhs |-> S("id"), rhs |-> S("8")],
   [object_type |-> S("APP"), lhs |-> S("id"), rhs |-> None],
   [object_type |-> S("APP"), lhs |-> None, rhs |-> S("7")],
   [object_type |-> None, lhs |-> S("id"), rhs |-> S("7")]}

\* the operands of a group: missing, not a list, or a list of operand dicts
OperandsChoices ==
  {None, S("APP")} \cup {Ops(ops) : ops \in SeqsUpTo(OperandChoices, MaxOperands)}

GroupChoices == {[operator |-> S("OR"), negated |-> True, operands |-> o] : o \in OperandsChoices}

ConditionLists == SeqsUpTo(GroupChoices, MaxGroups)

Perms(n) == {f \in [1..n -> 1..n] : \A i, j \in 1..n : f[i] = f[j] => i = j}

InitMap ==
  /\ kind = "timeout"
  /\ remote = <<>>
  /\ remote0 = <<>>
  /\ nextId = 1
  /\ pc = "idle"
  /\ params = EmptyDict
  /\ presence = "present"
  /\ resolved = FALSE
  /\ found = FALSE
  /\ existing = EmptyDict
  /\ calls = <<>>
  /\ outcomes = <<>>
  /\ warns = <<>>
  /\ runs = 0
  /\ prev = NoPrev
  /\ scheduler_id = None
  /\ groups0 \in ConditionLists
  /\ conditions_obj = Conds(groups0)
  /\ result = None
  /\ par = <<>>
  /\ check_mode = FALSE

\* result = map_conditions(conditions_obj)
MapConditions ==
  /\ result = None
  /\ result' = map_conditions(conditions_obj)
  /\ UNCHANGED <<kind, check_mode, remote, remote0, nextId, pc, params, presence, resolved, found,
                 existing, calls, outcomes, warns, runs, prev, scheduler_id,
                 groups0, conditions_obj, par>>

\* the caller passes the same groups in another order
Reorder(f) ==
  /\ conditions_obj' = Conds([i \in 1..Len(groups0) |-> groups0[f[i]]])
  /\ conditions_obj' # conditions_obj
  /\ result' = None
  /\ UNCHANGED <<kind, check_mode, remote, remote0, nextId, pc, params, presence, resolved, found,
                 existing, calls, outcomes, warns, runs, prev, scheduler_id, groups0,
                 par>>

NextMap ==
  \/ MapConditions
  \/ \E f \in Perms(Len(groups0)) : Reorder(f)

SpecMap == InitMap /\ [][NextMap]_vars

(***************************************************************************)
(* Two invocations of the application server module run at the same time   *)
(* against one remote service.  Each is a process of its own (no state is  *)
(* shared but the remote service); their remote calls interleave in any    *)
(* order.                                                                  *)
(***************************************************************************)
Procs == {"A", "B"}

\* the identifier the service assigns to the resource a process creates
ProcId(q) == IF q = "A" THEN 7 ELSE 8

ParSpecs ==
  {[id |-> i, name |-> n, description |-> d, address |-> None, enabled |-> True,
    app_server_group_ids |-> None] :
     i \in {None, S("1"), S("2")}, n \in {None, S("a"), S("b")}, d \in {None, S("y")}}

ParRemotes ==
  {<<>>,
   <<[id |-> S("1"), name |-> S("a"), description |-> S("x"), enabled |-> True]>>,
   <<[id |-> S("1"), name |-> S("a"), description |-> S("x"), enabled |-> True],
     [id |-> S("2"), name |-> S("a"), enabled |-> True]>>,
   <<[id |-> S("1"), name |-> S("a"), description |-> S("x"), enabled |-> True],
     [id |-> S("2"), name |-> S("b"), enabled |-> True]>>}

\* the remote listing after the mutating call of a plan has returned
ApplyPlan(plan, listing, n) ==
  CASE plan.act = "create" -> RemoteCreate(kind, listing, plan.payload, n)
    [] plan.act = "update" -> RemoteUpdate(kind, listing, plan.payload, plan.id)
    [] plan.act = "delete" -> RemoteDelete(listing, plan.id)
    [] OTHER -> listing

\* the exit_json that follows the step of a plan
PlanOutcome(plan, n) ==
  CASE plan.act = "create" ->
         ExitJson(plan.changed, "record", Stored(kind, plan.payload, S(IdPool[n])))
    [] plan.act = "update" ->
         ExitJson(plan.changed, "record", Stored(kind, plan.payload, plan.id))
    [] plan.act = "delete" -> ExitJson(plan.changed, "record", plan.data)
    [] OTHER -> ExitJson(plan.changed, plan.dtag, plan.data)

InitPar ==
  /\ kind = "server"
  /\ remote \in ParRemotes
  /\ remote0 = remote
  /\ nextId = 1
  /\ pc = "idle"
  /\ params = EmptyDict
  /\ presence = "present"
  /\ resolved = FALSE
  /\ found = FALSE
  /\ existing = EmptyDict
  /\ calls = <<>>
  /\ outcomes = <<>>
  /\ warns = <<>>
  /\ runs = 0
  /\ prev = NoPrev
  /\ scheduler_id = None
  /\ groups0 = <<>>
  /\ conditions_obj = Conds(<<>>)
  /\ result = None
  /\ check_mode = FALSE
  /\ par \in [Procs -> {[pc |-> "resolve", params |-> p, presence |-> st, found |-> FALSE,
                         existing |-> EmptyDict, plans |-> <<>>, outcomes |-> <<>>] :
                          p \in ParSpecs, st \in {"present", "absent"}}]

\* the read call of process q returns what the service holds at that moment
ParResolve(q) ==
  /\ par[q].pc = "resolve"
  /\ LET i == ResolveIndex(kind, par[q].params, remote)
     IN par' = [par EXCEPT ![q].pc = "decide",
                           ![q].found = (i # 0),
                           ![q].existing = IF i # 0 THEN remote[i] ELSE EmptyDict]
  /\ UNCHANGED <<kind, check_mode, remote, remote0, nextId, pc, params, presence, resolved, found,
                 existing, calls, outcomes, warns, runs, prev, scheduler_id, mapvars>>

\* process q takes the step core decides on and reports its outcome
ParDecide(q) ==
  /\ par[q].pc = "decide"
  /\ LET plan == core(kind, par[q].params, par[q].presence, par[q].found, par[q].existing)
     IN /\ remote' = ApplyPlan(plan, remote, ProcId(q))
        /\ par' = [par EXCEPT ![q].pc = "done",
                              ![q].plans = <<plan>>,
                              ![q].outcomes = <<PlanOutcome(plan, ProcId(q))>>]
  /\ UNCHANGED <<kind, check_mode, remote0, nextId, pc, params, presence, resolved, found,
                 existing, calls, outcomes, warns, runs, prev, scheduler_id, mapvars>>

NextPar == \E q \in Procs : ParResolve(q) \/ ParDecide(q)

SpecPar == InitPar /\ [][NextPar]_vars

(***************************************************************************)
(* Two invocations of the application server module, or two of the         *)
(* approval module, started with any desired records; the remote service   *)
(* holds nothing or one resource.  The processes are those of SpecPar.      *)
(***************************************************************************)
RaceSpecs(k) ==
  IF k = "server"
  THEN {[id |-> i, name |-> n, description |-> d, address |-> None, enabled |-> True,
         app_server_group_ids |-> None] :
          i \in {None, S("1")}, n \in {S("a"), S("b")}, d \in {None, S("y")}}
  ELSE {[id |-> i, email_ids |-> m, start_time |-> None, end_time |-> None,
         application_ids |-> a, working_hours |-> None] :
          i \in {None, S("1")}, m \in {L(<<"u1">>), L(<<"u2">>)},
          a \in {L(<<"app1">>), L(<<"app2">>)}}

RaceRemotes(k) ==
  IF k = "server"
  THEN {<<>>,
        <<[id |-> S("1"), name |-> S("a"), description |-> S("x"), enabled |-> True]>>}
  ELSE {<<>>,
        <<[id |-> S("1"), email_ids |-> L(<<"u1">>), start_time |-> S("t0"),
           end_time |-> S("t9"), application_ids |-> L(<<"app1">>)]>>}

InitRace ==
  /\ kind \in {"server", "approval"}
  /\ remote \in RaceRemotes(kind)
  /\ remote0 = remote
  /\ nextId = 1
  /\ pc = "idle"
  /\ params = EmptyDict
  /\ presence = "present"
  /\ resolved = FALSE
  /\ found = FALSE
  /\ existing = EmptyDict
  /\ calls = <<>>
  /\ outcomes = <<>>
  /\ warns = <<>>
  /\ runs = 0
  /\ prev = NoPrev
  /\ scheduler_id = None
  /\ groups0 = <<>>
  /\ conditions_obj = Conds(<<>>)
  /\ result = None
  /\ check_mode = FALSE
  /\ par \in [Procs -> {[pc |-> "resolve", params |-> p, presence |-> st, found |-> FALSE,
                         existing |-> EmptyDict, plans |-> <<>>, outcomes |-> <<>>] :
                          p \in RaceSpecs(kind), st \in {"present", "absent"}}]

SpecRace == InitRace /\ [][NextPar]_vars

(***************************************************************************)
(* The credential facts module (zpa_pra_credential_controller_facts): one   *)
(* invocation looks credentials up by id or by name, or lists them all.     *)
(***************************************************************************)
\* the id and name parameters a caller can pass; both are optional
FactsSpecs ==
  {[id |-> i, name |-> n] : i \in {None, S("1"), S("9")},
                            n \in {None, S("a"), S("b"), S("z")}}

\* the credentials the remote service can hold; names need not be unique
FactsRemotes ==
  {<<>>,
   <<[id |-> S("1"), name |-> S("a"), credential_type |-> S("PASSWORD")]>>,
   <<[id |-> S("1"), name |-> S("a"), credential_type |-> S("PASSWORD")],
     [id |-> S("2"), name |-> S("a"), credential_type |-> S("SSH_KEY")]>>,
   <<[id |-> S("1"), name |-> S("a"), credential_type |-> S("PASSWORD")],
     [id |-> S("2"), name |-> S("b"), credential_type |-> S("PASSWORD")],
     [id |-> S("3"), name |-> S("a"), credential_type |-> S("SSH_KEY")]>>}

\* which read call core issues
FactsReadCall(p) == IF Get(p, "id") # None THEN "get" ELSE "list"

\* get_credential: index of the credential with this id, 0 when there is none
GetCredential(listing, id) ==
  LET byId == Matches(listing, "id", id)
  IN IF byId = {} THEN 0 ELSE Min(byId)

\* mutant: the scan stops at the first credential with the name
ScanCreds_first(rest, cred_name, acc) ==
  LET byName == Matches(rest, "name", cred_name)
  IN IF byName = {} THEN acc
     ELSE [cred_found |-> TRUE, creds |-> <<rest[Min(byName)]>>]

RECURSIVE ScanCreds(_, _, _)
\* for cred in creds: if cred.get("name") == cred_name: cred_found = True;
\* creds = [cred]   (the loop walks the listing to its end)
ScanCreds(rest, cred_name, acc) ==
  IF rest = <<>> THEN acc
  ELSE ScanCreds(Tail(rest), cred_name,
                 IF Get(Head(rest), "name") = cred_name
                 THEN [cred_found |-> TRUE, creds |-> <<Head(rest)>>]
                 ELSE acc)

\* zpa_pra_credential_controller_facts.core once its read call has returned
facts_core(p, listing) ==
  IF Get(p, "id") # None
  THEN LET i == GetCredential(listing, Get(p, "id"))
       IN IF i = 0 THEN FailMsg("credential id")
          ELSE ExitJson(FALSE, "list", <<listing[i]>>)
  ELSE IF Get(p, "name") # None
       THEN LET r == ScanCreds(listing, Get(p, "name"),
                               [cred_found |-> FALSE, creds |-> listing])
            IN IF ~r.cred_found THEN FailMsg("credential name")
               ELSE ExitJson(FALSE, "list", r.creds)
       ELSE ExitJson(FALSE, "list", listing)

InitFacts ==
  /\ kind = "facts"
  /\ remote \in FactsRemotes
  /\ remote0 = remote
  /\ nextId = Len(remote) + 1
  /\ pc = "idle"
  /\ params = EmptyDict
  /\ presence = "present"
  /\ resolved = FALSE
  /\ found = FALSE
  /\ existing = EmptyDict
  /\ calls = <<>>
  /\ outcomes = <<>>
  /\ warns = <<>>
  /\ runs = 0
  /\ prev = NoPrev
  /\ scheduler_id = None
  /\ groups0 = <<>>
  /\ conditions_obj = Conds(<<>>)
  /\ result = None
  /\ check_mode = FALSE
  /\ par = <<>>

\* the module is invoked with any id and name, in check mode or not
FactsInvoke(p) ==
  /\ pc = "idle"
  /\ params' = p
  /\ check_mode' \in BOOLEAN
  /\ runs' = runs + 1
  /\ pc' = "resolve"
  /\ UNCHANGED <<kind, remote, remote0, nextId, presence, resolved, found, existing, calls,
                 outcomes, warns, prev, scheduler_id, mapvars, par>>

\* the read call returns and core reports its outcome
FactsRead ==
  /\ pc = "resolve"
  /\ calls' = Append(calls, Call(FactsReadCall(params),
                                 IF FactsReadCall(params) = "get" THEN Get(params, "id")
                                 ELSE None,
                                 EmptyDict, "ok"))
  /\ outcomes' = Append(outcomes, facts_core(params, remote))
  /\ pc' = "done"
  /\ UNCHANGED <<kind, check_mode, remote, remote0, nextId, params, presence, resolved, found,
                 existing, warns, runs, prev, scheduler_id, mapvars, par>>

\* the read call raises: main reports fail_json
FactsReadFault ==
  /\ pc = "resolve"
  /\ calls' = Append(calls, Call(FactsReadCall(params), None, EmptyDict, "raised"))
  /\ outcomes' = OnFault(outcomes)
  /\ pc' = "done"
  /\ UNCHANGED <<kind, check_mode, remote, remote0, nextId, params, presence, resolved, found,
                 existing, warns, runs, prev, scheduler_id, mapvars, par>>

NextFacts ==
  \/ \E p \in FactsSpecs : FactsInvoke(p)
  \/ FactsRead
  \/ FactsReadFault

SpecFacts == InitFacts /\ [][NextFacts]_vars

(***************************************************************************)
(* Vocabulary of the properties.                                           *)
(***************************************************************************)
Done == pc = "done"

Count(op) == Cardinality({i \in 1..Len(calls) : calls[i].op = op})

TheCall(op) == calls[CHOOSE i \in 1..Len(calls) : calls[i].op = op]

Mutations == Count("create") + Count("update") + Count("delete")

ReadRaised ==
  \E i \in 1..Len(calls) : calls[i].op \in {"get", "list"} /\ calls[i].res = "raised"

\* exactly one outcome, an exit_json with this changed flag
ExitedWith(changed) ==
  Len(outcomes) = 1 /\ outcomes[1].type = "exit" /\ outcomes[1].changed = changed

\* the resolver returned a resource of the remote service (it carries an id)
ResolvedCurrent == resolved /\ found /\ Get(existing, "id") # None

\* the kinds that resolve a resource by id or by natural key
KeyedKinds == {"server", "approval", "timeout", "segroup"}

\* no resource of the listing the invocation started from has the desired natural key
NoKeyMatch ==
  \/ Get(params, NaturalKey(kind)) = None
  \/ Matches(remote0, NaturalKey(kind), Get(params, NaturalKey(kind))) = {}

\* the fields of a kind that take part in the comparison of current and desired
ComparedFields(k) ==
  CASE k = "approval" -> Range(ParamList(k)) \ {"id", "start_time", "end_time"}
    [] k = "schedule" -> Range(ScheduleFields)
    [] OTHER -> Range(ParamList(k)) \ {"id"}

\* current and desired agree on field f (conditions in their flattened form)
FieldEqual(f) ==
  IF f = "conditions" /\ Get(params, f) # None
  THEN Get(existing, f) = map_conditions(Get(params, f))
  ELSE Get(existing, f) = Get(params, f)

(***************************************************************************)
(* C1  Create path.  For every kind that resolves a resource: when an      *)
(* invocation with presence "present", no id in the desired record and no  *)
(* resource with the desired natural key in the remote listing has ended   *)
(* (and its read call did not raise), it has issued exactly one create     *)
(* call, no update and no delete call, and the create payload has no id.   *)
(***************************************************************************)
C1_CreatePath ==
  (/\ Done
   /\ kind \in KeyedKinds
   /\ presence = "present"
   /\ Get(params, "id") = None
   /\ NoKeyMatch
   /\ ~ReadRaised)
  => /\ Count("create") = 1
     /\ Count("update") = 0
     /\ Count("delete") = 0
     /\ ~HasKey(TheCall("create").payload, "id")

(***************************************************************************)
(* C2  No-op purity.  For every kind: when an invocation with presence     *)
(* "present" that resolved a current resource (one that carries an id)     *)
(* equal to the desired record on every compared field has ended, it has   *)
(* issued no create, update or delete call and its outcome is              *)
(* changed=false.                                                          *)
(***************************************************************************)
C2_NoOpPurity ==
  (/\ Done
   /\ presence = "present"
   /\ ResolvedCurrent
   /\ \A f \in ComparedFields(kind) : FieldEqual(f))
  => /\ Mutations = 0
     /\ ExitedWith(FALSE)

(***************************************************************************)
(* C3  Idempotence.  For every kind that resolves by natural key: when the *)
(* first invocation ended in an exit_json and the same desired record      *)
(* (presence "present", no id, natural key set) is run again against the   *)
(* remote state the first run left, the remote service having stored the   *)
(* payload it was sent, the second run issues no mutating call and reports *)
(* changed=false.                                                          *)
(***************************************************************************)
C3_Idempotence ==
  (/\ Done
   /\ kind \in KeyedKinds
   /\ prev.valid /\ prev.ok
   /\ Get(params, "id") = None
   /\ Get(params, NaturalKey(kind)) # None
   /\ presence = "present"
   /\ ~ReadRaised)
  => /\ Mutations = 0
     /\ ExitedWith(FALSE)

\* the fields the Differ loop of kind k iterates: those of the normalized
\* desired record; the timeout rule and the service edge group have no loop
DifferFields(k) ==
  CASE k = "server" -> DOMAIN normalize_app([f \in Range(ParamList(k)) |-> None])
    [] k = "approval" -> DOMAIN normalize_approval([f \in Range(ParamList(k)) |-> None])
    [] k = "schedule" -> Range(ScheduleFields)
    [] OTHER -> {}

\* a compared field the desired record specifies differs from the current value
SpecifiedFieldDiffers ==
  \E f \in DifferFields(kind) \ {"id"} :
     Get(params, f) # None /\ Get(existing, f) # Get(params, f)

\* every compared field is either unset in the desired record or equal
OnlyUnsetFieldsDiffer ==
  \A f \in DifferFields(kind) \ {"id"} :
     Get(params, f) = None \/ Get(existing, f) = Get(params, f)

(***************************************************************************)
(* C4  Update triggers exactly on diff.  For the kinds that compare fields *)
(* (application server, approval): when an invocation with presence        *)
(* "present" that resolved a current resource, with at least one compared  *)
(* field set in the desired record and different from the current value,   *)
(* has ended, it has issued exactly one update call keyed by the resolved  *)
(* resource's id (also under the id keyword of the payload), no create and *)
(* no delete call, and every outcome core reports is changed=true: an      *)
(* update call that returned is followed by exit_json(changed=True).       *)
(***************************************************************************)
C4_UpdateOnDiff ==
  (/\ Done
   /\ kind \in {"server", "approval"}
   /\ presence = "present"
   /\ ResolvedCurrent
   /\ SpecifiedFieldDiffers)
  => /\ Count("update") = 1
     /\ TheCall("update").id = Get(existing, "id")
     /\ Get(TheCall("update").payload, IdArg(kind)) = Get(existing, "id")
     /\ Count("create") = 0
     /\ Count("delete") = 0
     /\ Len(outcomes) = 1
     /\ outcomes[1].type = "exit" => outcomes[1].changed
     /\ TheCall("update").res = "ok" => ExitedWith(TRUE)

\* an update decided on a field difference, for a resource resolved by name
\* while the desired record carries no id
C4_Witness ==
  /\ Done
  /\ kind = "server"
  /\ presence = "present"
  /\ ResolvedCurrent
  /\ SpecifiedFieldDiffers
  /\ Get(params, "id") = None
  /\ Count("update") = 1
  /\ TheCall("update").res = "ok"
  /\ ExitedWith(TRUE)

(***************************************************************************)
(* C5  Unset-field neutrality.  In an invocation with presence "present",  *)
(* a field the desired record leaves unset (None) is never reported as a   *)
(* difference; and an application server or                                *)
(* approval whose compared fields are all either unset in the desired      *)
(* record or equal to the current value is reconciled as NoOp: no update   *)
(* call and changed=false.                                                 *)
(***************************************************************************)
C5_UnsetFieldNeutrality ==
  (Done /\ resolved /\ presence = "present")
  => /\ \A i \in 1..Len(warns) : Get(params, warns[i]) # None
     /\ (/\ kind \in {"server", "approval"}
         /\ presence = "present"
         /\ ResolvedCurrent
         /\ OnlyUnsetFieldsDiffer)
        => (Count("update") = 0 /\ ExitedWith(FALSE))

\* the keywords of the update call of kind k and the record key each one reads
UpdateArgsOf(k) ==
  CASE k = "server" -> ServerUpdateArgs
    [] k = "approval" -> ApprovalUpdateArgs
    [] k = "segroup" -> SegroupUpdateArgs

(***************************************************************************)
(* C6  Update payload merge.  In the payload of every update call of the   *)
(* application server, approval and service edge group modules, each field *)
(* the desired record sets carries the desired value, and each field the   *)
(* desired record leaves unset carries the value the resolved resource has *)
(* (it is neither dropped nor overwritten).                                *)
(***************************************************************************)
C6_UpdatePayloadMerge ==
  (/\ Done
   /\ kind \in {"server", "approval", "segroup"}
   /\ Count("update") = 1)
  => \A a \in DOMAIN UpdateArgsOf(kind) \ {IdArg(kind)} :
        LET key == UpdateArgsOf(kind)[a]
            payload == TheCall("update").payload
        IN IF Get(params, key) # None
           THEN Get(payload, a) = Get(params, key)
           ELSE Get(payload, a) = Get(existing, key)

(***************************************************************************)
(* C7  Create outcome.  For every kind that resolves a resource: whenever  *)
(* the create call returned successfully, the single outcome is            *)
(* changed=true and its data is the created resource.                      *)
(***************************************************************************)
C7_CreateOutcome ==
  (/\ Done
   /\ kind \in KeyedKinds
   /\ Count("create") = 1
   /\ TheCall("create").res = "ok")
  => /\ ExitedWith(TRUE)
     /\ outcomes[1].dtag = "record"
     /\ outcomes[1].data = remote[Len(remote)]

(***************************************************************************)
(* C8  Delete-idempotence.  When an invocation with presence "absent"      *)
(* whose resolver found no current resource has ended, it has issued no    *)
(* mutating call and its single outcome is changed=false with empty data.  *)
(***************************************************************************)
C8_DeleteIdempotence ==
  (/\ Done
   /\ presence = "absent"
   /\ resolved /\ ~found)
  => /\ Mutations = 0
     /\ ExitedWith(FALSE)
     /\ outcomes[1].dtag = "empty"

\* a listing was scanned for the natural key and held no match
C8_Witness ==
  /\ Done
  /\ presence = "absent"
  /\ resolved /\ ~found
  /\ Count("list") = 1
  /\ remote0 # <<>>
  /\ ExitedWith(FALSE)

(***************************************************************************)
(* C9  Delete decision.  When an invocation with presence "absent" whose   *)
(* resolver found a current resource has ended, it has issued exactly one  *)
(* delete call, keyed by the resolved resource's id, and no create or      *)
(* update call, whether or not the desired and current fields differ.      *)
(***************************************************************************)
C9_DeleteDecision ==
  (/\ Done
   /\ presence = "absent"
   /\ ResolvedCurrent)
  => /\ Count("delete") = 1
     /\ TheCall("delete").id = Get(existing, "id")
     /\ Count("create") = 0
     /\ Count("update") = 0

\* a delete of a resource resolved by name whose fields differ from the desired ones
C9_Witness ==
  /\ Done
  /\ presence = "absent"
  /\ ResolvedCurrent
  /\ Get(params, "id") = None
  /\ \E f \in ComparedFields(kind) : ~FieldEqual(f)
  /\ Count("delete") = 1

\* the delete call returned a status code
DeleteReturned == Count("delete") = 1 /\ TheCall("delete").res = "status"

C11_OutcomeOnce == Done => Len(outcomes) = 1

IsRead(c) == c.op \in {"get", "list"}

IsMutation(c) == c.op \in {"create", "update", "delete"}

(***************************************************************************)
(* C12 Call budget.  At every point of an invocation the engine has issued *)
(* at most one read call (a get-by-id or a list-all, never both) and at    *)
(* most one mutating call (create, update or delete), and no read call     *)
(* follows a mutating call: a read call that is issued precedes the        *)
(* mutating call.                                                          *)
(***************************************************************************)
C12_CallBudget ==
  /\ Count("get") + Count("list") <= 1
  /\ Mutations <= 1
  /\ \A i, j \in 1..Len(calls) : (IsRead(calls[i]) /\ IsMutation(calls[j])) => i < j

\* an invocation by id that used its whole budget: one get, then one update
C12_Witness ==
  /\ Done
  /\ Get(params, "id") # None
  /\ Len(calls) = 2
  /\ calls[1].op = "get"
  /\ calls[2].op = "update"

\* indices of the starting listing that carry the desired natural key
KeyMatches == Matches(remote0, NaturalKey(kind), Get(params, NaturalKey(kind)))

(***************************************************************************)
(* C13 Natural-key resolution picks the first match.  For every kind that  *)
(* resolves by name (application server, timeout rule, service edge group) *)
(* or by email list (approval): when an invocation whose desired record    *)
(* has no id, run against a listing in which several resources share the   *)
(* desired natural key, has ended without a fault of the read call, its    *)
(* resolver has returned the resource that comes first in listing order.   *)
(***************************************************************************)
C13_FirstMatch ==
  (/\ Done
   /\ kind \in KeyedKinds
   /\ Get(params, "id") = None
   /\ Get(params, NaturalKey(kind)) # None
   /\ Cardinality(KeyMatches) >= 2
   /\ ~ReadRaised)
  => /\ resolved
     /\ found
     /\ \E i \in KeyMatches : (\A j \in KeyMatches : i <= j) /\ existing = remote0[i]

\* no resource of the starting listing carries the desired id
NoIdMatch == Matches(remote0, "id", Get(params, "id")) = {}

(***************************************************************************)
(* C14 Resolution by id.  For the application server, approval and timeout *)
(* rule modules: when an invocation whose desired record carries an id has *)
(* ended without a fault of the read call, it has issued one get-by-id     *)
(* call and no listing call; and when no resource has that id the resolver *)
(* found nothing, without an error: presence "present" has led to exactly  *)
(* one create call and presence "absent" to no mutating call and a         *)
(* changed=false outcome, also when a resource with the desired natural    *)
(* key exists.                                                             *)
(***************************************************************************)
C14_ResolutionById ==
  (/\ Done
   /\ kind \in {"server", "approval", "timeout"}
   /\ Get(params, "id") # None
   /\ ~ReadRaised)
  => /\ Count("get") = 1
     /\ Count("list") = 0
     /\ NoIdMatch =>
          /\ resolved /\ ~found
          /\ IF presence = "present"
             THEN Count("create") = 1 /\ Count("update") = 0 /\ Count("delete") = 0
             ELSE Mutations = 0 /\ ExitedWith(FALSE)

\* a remote call of the invocation raised an exception other than a conflict
CallRaised == \E i \in 1..Len(calls) : calls[i].res = "raised"

CreateConflicted == Count("create") = 1 /\ TheCall("create").res = "conflict"

(***************************************************************************)
(* C16 Create conflict handling.  Once the create call has reported that   *)
(* the resource already exists, the invocation has ended; the create call  *)
(* is its last remote call (nothing is resolved again, nothing is called   *)
(* afterwards).  The application server, approval, timeout rule and        *)
(* service edge group modules report fail_json as their single outcome;    *)
(* the connector schedule module reports no failure and leaves the         *)
(* placeholder identifier in scheduler_id.                                 *)
(***************************************************************************)
C16_CreateConflict ==
  CreateConflicted
  => /\ Done
     /\ calls[Len(calls)].op = "create"
     /\ Count("get") + Count("list") <= 1
     /\ remote = remote0
     /\ IF kind = "schedule"
        THEN /\ \A i \in 1..Len(outcomes) : outcomes[i].type # "fail"
             /\ scheduler_id = PlaceholderId
        ELSE outcomes = <<FailJson>>

\* a module other than the connector schedule met the conflict after a listing
C16_Witness ==
  /\ CreateConflicted
  /\ kind # "schedule"
  /\ Len(calls) = 2
  /\ calls[1].op = "list"
  /\ outcomes = <<FailJson>>

\* a desired coordinate lies outside its valid range
CoordinateOutOfRange ==
  \/ validate_latitude_errors(Get(params, "latitude"))
  \/ validate_longitude_errors(Get(params, "longitude"))

(***************************************************************************)
(* C17 Validation before resolution.  When an invocation of the service    *)
(* edge group module whose desired latitude or longitude is out of range   *)
(* has ended, whatever the presence and whether one or both coordinates    *)
(* are given, its single outcome is the fail_json of the coordinate        *)
(* validation and it has issued no remote call, neither read nor mutating. *)
(***************************************************************************)
C17_ValidationFirst ==
  (/\ Done
   /\ kind = "segroup"
   /\ CoordinateOutOfRange)
  => /\ outcomes = <<FailMsg("validation")>>
     /\ calls = <<>>

\* the group the resolver is to return: the first of the starting listing
\* with the desired name
CurrentGroup == remote0[CHOOSE i \in KeyMatches : \A j \in KeyMatches : i <= j]

(***************************************************************************)
(* C18 Coordinate tolerance.  When an invocation of the service edge group *)
(* module with presence "present", no id, in-range coordinates and a       *)
(* desired latitude, run against a listing that holds a group of the       *)
(* desired name, has ended, it has not failed; if the desired latitude     *)
(* rounds to the same value as the current one, an update call that is     *)
(* issued carries the current latitude, and if it rounds to a different    *)
(* value an update call is issued and carries the desired latitude.        *)
(***************************************************************************)
C18_CoordinateTolerance ==
  (/\ Done
   /\ kind = "segroup"
   /\ presence = "present"
   /\ Get(params, "id") = None
   /\ KeyMatches # {}
   /\ Get(params, "latitude") # None
   /\ ~CoordinateOutOfRange
   /\ ~CallRaised)
  => /\ Len(outcomes) = 1
     /\ outcomes[1].type = "exit"
     /\ IF CoordRounded(Get(CurrentGroup, "latitude")) = CoordRounded(Get(params, "latitude"))
        THEN Count("update") = 1 =>
               Get(TheCall("update").payload, "latitude") = Get(CurrentGroup, "latitude")
        ELSE /\ Count("update") = 1
             /\ Get(TheCall("update").payload, "latitude") = Get(params, "latitude")

(***************************************************************************)
(* C19 Condition flattening is insensitive to group order.  Whatever order *)
(* the groups of a condition list are passed in, map_conditions returns a  *)
(* sequence with the same set of (object_type, lhs, rhs) triples as for    *)
(* the list in its original order.                                         *)
(***************************************************************************)
C19_GroupOrderInsensitive ==
  result # None => Range(result[2]) = Range(map_conditions(Conds(groups0))[2])

\* the groups were passed in another order and the two sequences differ
C19_Witness ==
  /\ result # None
  /\ conditions_obj # Conds(groups0)
  /\ Len(result[2]) >= 2
  /\ result # map_conditions(Conds(groups0))

RECURSIVE AllOperands(_)
\* every operand of every group whose operands are a list, in group order and
\* then operand order
AllOperands(groups) ==
  IF groups = <<>> THEN <<>>
  ELSE (IF "operands" \in DOMAIN Head(groups) /\ Head(groups).operands[1] = "ops"
        THEN Head(groups).operands[2] ELSE <<>>) \o AllOperands(Tail(groups))

\* the three fields of the operand are all populated
Populated(op) ==
  \A f \in {"object_type", "lhs", "rhs"} : f \in DOMAIN op /\ op[f] # None

ExpectedTriples(groups) ==
  LET kept == SelectSeq(AllOperands(groups), Populated)
  IN [i \in 1..Len(kept) |-> <<kept[i].object_type, kept[i].lhs, kept[i].rhs>>]

(***************************************************************************)
(* C20 Condition flattening result.  map_conditions returns, in group      *)
(* order and then operand order, exactly one triple (object_type, lhs,     *)
(* rhs) for each operand whose three fields are all populated; an operand  *)
(* with any of the three missing is dropped, a group whose operands are    *)
(* missing or not a list contributes nothing, and neither the group        *)
(* operator nor the negated flag appears in the result.                    *)
(***************************************************************************)
C20_FlatteningResult ==
  result # None
  => /\ result = Triples(ExpectedTriples(conditions_obj[2]))
     /\ \A i \in 1..Len(result[2]) :
          /\ Len(result[2][i]) = 3
          /\ \A n \in 1..3 : result[2][i][n] \notin {S("OR"), True}

\* two groups, one without an operand list, the other with a kept and a
\* dropped operand
C20_Witness ==
  /\ result # None
  /\ Len(conditions_obj[2]) = 2
  /\ \E i \in 1..2 : conditions_obj[2][i].operands[1] # "ops"
  /\ Len(AllOperands(conditions_obj[2])) = 2
  /\ Len(result[2]) = 1

\* the create and update calls issued so far
PayloadCalls == {i \in 1..Len(calls) : calls[i].op \in {"create", "update"}}

(***************************************************************************)
(* C21 No null placeholders.  For every module and every desired record,   *)
(* no payload passed to a create or update call of the client holds a      *)
(* field whose value is unset (None).                                      *)
(***************************************************************************)
C21_NoNullPlaceholders ==
  \A i \in PayloadCalls : \A f \in DOMAIN calls[i].payload : calls[i].payload[f] # None

\* two values are equal, lists being taken as the set of their elements
SetEqual(v, w) ==
  IF v[1] = "list" /\ w[1] = "list" THEN Range(v[2]) = Range(w[2]) ELSE v = w

\* some desired list holds the identifiers of the current one in another order
SomeListReordered ==
  \E f \in ComparedFields(kind) :
     /\ Get(params, f)[1] = "list"
     /\ SetEqual(Get(params, f), Get(existing, f))
     /\ Get(params, f) # Get(existing, f)

(***************************************************************************)
(* C22 List-of-identifier fields are compared as sets.  For the            *)
(* application server and approval modules: when an invocation with        *)
(* presence "present" that resolved a current resource has ended, every    *)
(* compared field being equal to the current value, where a list equals a  *)
(* list with the same identifiers in any order, it has issued no mutating  *)
(* call and reports changed=false; and an approval whose desired email     *)
(* list holds the emails of a remote approval in another order is resolved *)
(* to that approval.                                                       *)
(***************************************************************************)
C22_ListsAsSets ==
  /\ (/\ Done
      /\ kind \in {"server", "approval"}
      /\ presence = "present"
      /\ ResolvedCurrent
      /\ \A f \in ComparedFields(kind) : SetEqual(Get(params, f), Get(existing, f)))
     => (Mutations = 0 /\ ExitedWith(FALSE))
  /\ (/\ Done
      /\ kind = "approval"
      /\ Get(params, "id") = None
      /\ Get(params, "email_ids") # None
      /\ \E i \in 1..Len(remote0) :
            SetEqual(Get(remote0[i], "email_ids"), Get(params, "email_ids"))
      /\ ~ReadRaised)
     => found

\* process q run alone against a listing: its plan, its outcome and the
\* listing it leaves
Alone(q, listing) ==
  LET i == ResolveIndex(kind, par[q].params, listing)
      plan == core(kind, par[q].params, par[q].presence, i # 0,
                   IF i # 0 THEN listing[i] ELSE EmptyDict)
  IN [plan |-> plan,
      outcome |-> PlanOutcome(plan, ProcId(q)),
      remote |-> ApplyPlan(plan, listing, ProcId(q))]

\* the listing left by q1 run alone and then q2 run alone
InSequence(q1, q2) == Alone(q2, Alone(q1, remote0).remote).remote

\* index of the resource of the starting listing that q addresses: the one
\* with the desired id, else the first with the desired name, else 0
TargetOf(q) ==
  LET p == par[q].params
      byId == {i \in 1..Len(remote0) : Get(remote0[i], "id") = p.id}
      byName == {i \in 1..Len(remote0) : Get(remote0[i], "name") = p.name}
  IN IF p.id # None
     THEN (IF byId = {} THEN 0 ELSE CHOOSE i \in byId : TRUE)
     ELSE IF p.name # None /\ byName # {}
          THEN CHOOSE i \in byName : \A j \in byName : i <= j
          ELSE 0

\* the two invocations address different instances: different desired ids,
\* different desired names, different resources of the starting listing
DifferentInstances ==
  /\ par["A"].params.name # par["B"].params.name
  /\ par["A"].params.id = None \/ par["A"].params.id # par["B"].params.id
  /\ TargetOf("A") = 0 \/ TargetOf("A") # TargetOf("B")

BothDone == \A q \in Procs : par[q].pc = "done"

(***************************************************************************)
(* C23 Independence of invocations on different instances.  When two       *)
(* invocations of the application server module that address different     *)
(* instances have both ended, in whatever order their remote calls were    *)
(* interleaved, each has taken the decision, sent the payload and reported *)
(* the outcome it takes when run alone, and the remote service holds the   *)
(* resources it holds after running the two one after the other, in either *)
(* order.                                                                  *)
(***************************************************************************)
C23_Independence ==
  (BothDone /\ DifferentInstances)
  => /\ \A q \in Procs :
          /\ par[q].plans = <<Alone(q, remote0).plan>>
          /\ par[q].outcomes = <<Alone(q, remote0).outcome>>
     /\ Range(remote) = Range(InSequence("A", "B"))
     /\ Range(remote) = Range(InSequence("B", "A"))

\* both read calls came before both mutating calls: one invocation created
\* a resource while the other updated another one
C23_Witness ==
  /\ BothDone
  /\ DifferentInstances
  /\ par["A"].plans[1].act = "create"
  /\ par["B"].plans[1].act = "update"
  /\ Len(remote) = Len(remote0) + 1

(***************************************************************************)
(* C24 Check mode.  An invocation made in check mode (every module         *)
(* declares supports_check_mode=True) issues no create, update or delete   *)
(* call against the remote service.                                        *)
(***************************************************************************)
C24_CheckMode == check_mode => Mutations = 0

\* the value field f of the desired record has in a payload: conditions are
\* sent flattened
DesiredInPayload(f) ==
  IF f = "conditions" THEN map_conditions(Get(params, f)) ELSE Get(params, f)

(***************************************************************************)
(* C25 Create payload completeness.  For every kind that resolves a        *)
(* resource: the payload of the create call holds every declared field     *)
(* other than id that the desired record sets, with the desired value; in  *)
(* particular an application server created with enabled set carries that  *)
(* value of enabled.                                                       *)
(***************************************************************************)
C25_CreatePayloadComplete ==
  (kind \in KeyedKinds /\ Count("create") = 1)
  => \A f \in Range(ParamList(kind)) \ {"id"} :
        Get(params, f) # None => Get(TheCall("create").payload, f) = DesiredInPayload(f)

(***************************************************************************)
(* C26 Enum canonicalization.  When an invocation of the timeout rule      *)
(* module with presence "present", a desired action in any letter case and *)
(* desired conditions has ended without a fault of a remote call, it has   *)
(* issued a create or an update call whose payload carries the action in   *)
(* upper case: desired actions that differ only in letter case lead to the *)
(* same payload on the create path and on the update path.                 *)
(***************************************************************************)
C26_ActionUpperCase ==
  (/\ Done
   /\ kind = "timeout"
   /\ presence = "present"
   /\ Get(params, "action") # None
   /\ Get(params, "conditions") # None
   /\ ~CallRaised)
  => \E i \in PayloadCalls : Get(calls[i].payload, "action") = Upper(Get(params, "action"))

(***************************************************************************)
(* C27 Timeout rule update with unset action.  When an invocation of the   *)
(* timeout rule module with presence "present" whose desired record leaves *)
(* action unset has resolved a rule and ended, it has issued no update     *)
(* call and no other mutating call, and its single outcome is the          *)
(* fail_json of main: the merge has overwritten the current action with    *)
(* None and upper-casing it raises.                                        *)
(***************************************************************************)
C27_UnsetActionRaises ==
  (/\ Done
   /\ kind = "timeout"
   /\ presence = "present"
   /\ resolved /\ found
   /\ Get(params, "action") = None)
  => /\ Mutations = 0
     /\ outcomes = <<FailJson>>

\* the resolved rule has an action, the desired record has conditions but no
\* action
C27_Witness ==
  /\ Done
  /\ kind = "timeout"
  /\ presence = "present"
  /\ resolved /\ found
  /\ Get(existing, "action") = S("RE_AUTH")
  /\ Get(params, "action") = None
  /\ Get(params, "conditions") # None
  /\ outcomes = <<FailJson>>

\* 'TRUE' if is_public else 'FALSE'
PublicString(v) == IF v = True THEN S("TRUE") ELSE S("FALSE")

(***************************************************************************)
(* C28 Service edge group is_public conversion.  When an invocation of the *)
(* service edge group module with presence "present", a desired boolean    *)
(* is_public and in-range coordinates has ended without a fault of a       *)
(* remote call, it has issued a create or an update call whose payload     *)
(* carries is_public as the string 'TRUE' or 'FALSE', not the boolean.     *)
(***************************************************************************)
C28_IsPublicString ==
  (/\ Done
   /\ kind = "segroup"
   /\ presence = "present"
   /\ Get(params, "is_public") # None
   /\ ~CoordinateOutOfRange
   /\ ~CallRaised)
  => \E i \in PayloadCalls :
        Get(calls[i].payload, "is_public") = PublicString(Get(params, "is_public"))

(***************************************************************************)
(* C29 Service edge group invocations never reach the remote service.      *)
(* Every invocation of the service edge group module, whatever its input,  *)
(* has ended as soon as it is started, with the fail_json of main as its   *)
(* single outcome and with no remote call, neither read nor mutating.      *)
(***************************************************************************)
C29_SegroupNeverCalls ==
  (kind = "segroup" /\ runs > 0)
  => /\ Done
     /\ calls = <<>>
     /\ outcomes = <<FailJson>>

\* a group of the desired name exists and the desired record is valid
C29_Witness ==
  /\ kind = "segroup"
  /\ Done
  /\ presence = "present"
  /\ KeyMatches # {}
  /\ Get(params, "is_public") = True
  /\ ~CoordinateOutOfRange
  /\ calls = <<>>
  /\ outcomes = <<FailJson>>

\* the fields of the approval time window
TimeWindow == {"start_time", "end_time"}

(***************************************************************************)
(* C30 Approval time window is not compared.  When an invocation of the    *)
(* approval module with presence "present" has resolved an approval whose  *)
(* fields other than start_time and end_time all equal the desired ones,   *)
(* it ends with no update call, no other mutating call and changed=false,  *)
(* whatever the desired start_time and end_time; and the payload of every  *)
(* update call of the module carries the start_time and end_time the       *)
(* desired record sets.                                                    *)
(***************************************************************************)
C30_TimeWindowNotCompared ==
  /\ (/\ Done
      /\ kind = "approval"
      /\ presence = "present"
      /\ ResolvedCurrent
      /\ \A f \in Range(ParamList("approval")) \ ({"id"} \cup TimeWindow) :
            Get(existing, f) = Get(params, f))
     => (Mutations = 0 /\ ExitedWith(FALSE))
  /\ (kind = "approval" /\ Count("update") = 1)
     => \A f \in TimeWindow :
           Get(params, f) # None => Get(TheCall("update").payload, f) = Get(params, f)

\* the desired start_time differs from the current one and nothing is updated
C30_Witness ==
  /\ Done
  /\ kind = "approval"
  /\ presence = "present"
  /\ ResolvedCurrent
  /\ Get(params, "start_time") # None
  /\ Get(existing, "start_time") # None
  /\ Get(params, "start_time") # Get(existing, "start_time")
  /\ Mutations = 0
  /\ ExitedWith(FALSE)

\* the decision was NoOp for a resource the resolver had found
NoOpOnCurrent ==
  /\ Done
  /\ presence = "present"
  /\ ResolvedCurrent
  /\ Mutations = 0
  /\ ExitedWith(FALSE)

(***************************************************************************)
(* C31 NoOp outcome data.  For the application server and approval         *)
(* modules: when the decision was NoOp for a resolved resource, the data   *)
(* of the outcome is that resource as fetched: every field has the value   *)
(* the remote service holds (an absent field counting as None); and when   *)
(* nothing was resolved under presence "absent" the data is empty.         *)
(***************************************************************************)
C31_NoOpData ==
  /\ (kind \in {"server", "approval"} /\ NoOpOnCurrent)
     => /\ outcomes[1].dtag = "record"
        /\ \A f \in DOMAIN outcomes[1].data \cup DOMAIN existing :
              Get(outcomes[1].data, f) = Get(existing, f)
  /\ (/\ Done
      /\ kind \in {"server", "approval"}
      /\ presence = "absent"
      /\ resolved /\ ~found)
     => (ExitedWith(FALSE) /\ outcomes[1].dtag = "empty")

(***************************************************************************)
(* C32 Connector schedule creation decision.  When an invocation of the    *)
(* connector schedule module that found no schedule has ended: if the      *)
(* desired enabled flag is true it has issued exactly one add-schedule     *)
(* call and no update, and reports changed=true when that call returned;   *)
(* if enabled is false or unset it has issued no mutating call and reports *)
(* changed=false, although presence is "present" and nothing was resolved. *)
(***************************************************************************)
C32_ScheduleCreateDecision ==
  (/\ Done
   /\ kind = "schedule"
   /\ resolved /\ ~found)
  => IF Get(params, "enabled") = True
     THEN /\ Count("create") = 1
          /\ Count("update") = 0
          /\ TheCall("create").res = "ok" => ExitedWith(TRUE)
     ELSE /\ Mutations = 0
          /\ ExitedWith(FALSE)

\* nothing exists and enabled is unset: no schedule is created
C32_Witness ==
  /\ Done
  /\ kind = "schedule"
  /\ presence = "present"
  /\ resolved /\ ~found
  /\ Get(params, "enabled") = None
  /\ Mutations = 0
  /\ ExitedWith(FALSE)

\* the connector schedule module fetched a schedule record that carries an id
ScheduleWithId ==
  /\ kind = "schedule"
  /\ resolved /\ found
  /\ Get(existing, "id") # None

\* the connector schedule module fetched a non-empty record that carries no id
ScheduleWithoutId ==
  /\ kind = "schedule"
  /\ resolved /\ found
  /\ Get(existing, "id") = None

\* one of the four schedule settings of the fetched record is not the desired value
ScheduleFieldDiffers ==
  \E f \in {"enabled", "delete_disabled", "frequency", "frequency_interval"} :
     Get(existing, f) # Get(params, f)

(***************************************************************************)
(* C33 Connector schedule update decision.  When an invocation of the      *)
(* connector schedule module that fetched a schedule with an id has ended: *)
(* if one of enabled, delete_disabled, frequency, frequency_interval       *)
(* differs between the fetched and the desired values it has issued        *)
(* exactly one mutating call, an update keyed by that id, which reports    *)
(* changed=true when it returned a result and a failure, never             *)
(* changed=true, when the result was falsy; if none differs it has issued  *)
(* no mutating call and reports changed=false.                             *)
(***************************************************************************)
C33_ScheduleUpdateDecision ==
  (Done /\ ScheduleWithId)
  => IF ScheduleFieldDiffers
     THEN /\ Count("update") = 1
          /\ Mutations = 1
          /\ TheCall("update").id = Get(existing, "id")
          /\ Get(TheCall("update").payload, "scheduler_id") = Get(existing, "id")
          /\ TheCall("update").res = "ok" => ExitedWith(TRUE)
          /\ TheCall("update").res = "falsy"
               => /\ Len(outcomes) = 1
                  /\ outcomes[1].type = "fail"
                  /\ ~outcomes[1].changed
     ELSE /\ Mutations = 0
          /\ ExitedWith(FALSE)

\* a schedule with an id differs in its frequency interval only; the update
\* returned a falsy result
C33_Witness ==
  /\ Done /\ ScheduleWithId
  /\ Get(existing, "enabled") = Get(params, "enabled")
  /\ Get(existing, "delete_disabled") = Get(params, "delete_disabled")
  /\ Get(existing, "frequency_interval") # Get(params, "frequency_interval")
  /\ Count("update") = 1
  /\ TheCall("update").res = "falsy"
  /\ Len(outcomes) = 1 /\ outcomes[1].type = "fail"

(***************************************************************************)
(* C34 Connector schedule without an id.  When an invocation of the        *)
(* connector schedule module that fetched a non-empty record carrying no   *)
(* id has ended, it has issued no mutating call and its only outcome is    *)
(* the failure 'Schedule ID not found', whether or not a field differs; it *)
(* has not reported 'No update required'.                                  *)
(***************************************************************************)
C34_ScheduleWithoutId ==
  (Done /\ ScheduleWithoutId)
  => /\ Mutations = 0
     /\ outcomes = <<FailMsg("schedule id not found")>>

\* a record without id whose four settings are all the desired ones
C34_Witness ==
  /\ Done /\ ScheduleWithoutId
  /\ ~ScheduleFieldDiffers
  /\ outcomes = <<FailMsg("schedule id not found")>>

\* the two invocations ask for the presence of a resource with the same
\* natural key, give no id, and no resource of the starting listing has that key
RacePair ==
  /\ \A q \in Procs : par[q].presence = "present" /\ Get(par[q].params, "id") = None
  /\ Get(par["A"].params, NaturalKey(kind)) = Get(par["B"].params, NaturalKey(kind))
  /\ Get(par["A"].params, NaturalKey(kind)) # None
  /\ Matches(remote0, NaturalKey(kind), Get(par["A"].params, NaturalKey(kind))) = {}

\* both read calls returned before either create call: both resolved "absent"
BothResolvedAbsent == \A q \in Procs : par[q].pc \in {"decide", "done"} /\ ~par[q].found

\* resources of the remote service that hold the natural key invocation A asked for
Duplicates == Matches(remote, NaturalKey(kind), Get(par["A"].params, NaturalKey(kind)))

(***************************************************************************)
(* C35 Duplicate-create race.  Two invocations with presence "present", no *)
(* id and the same natural key run at the same time against a service that *)
(* holds no resource with that key.  Whenever both have resolved "absent", *)
(* nothing holds back either of them: each that has ended has issued a     *)
(* create call, and once both have ended the service holds two resources   *)
(* with that natural key, under two different ids.  (The state is          *)
(* reachable: C35_Witness.)                                                *)
(***************************************************************************)
C35_DuplicateCreateRace ==
  (RacePair /\ BothResolvedAbsent)
  => /\ \A q \in Procs :
          par[q].pc = "done"
            => /\ Len(par[q].plans) = 1
               /\ par[q].plans[1].act = "create"
               /\ par[q].outcomes[1].type = "exit"
               /\ par[q].outcomes[1].changed
     /\ BothDone
          => /\ Cardinality(Duplicates) = 2
             /\ \A i, j \in Duplicates : i # j => Get(remote[i], "id") # Get(remote[j], "id")

\* two approvals for the same e-mail address, created by the two invocations
C35_Witness ==
  /\ kind = "approval"
  /\ RacePair
  /\ BothDone
  /\ \A q \in Procs : par[q].plans[1].act = "create"
  /\ Cardinality(Duplicates) = 2

\* the two invocations were given the same desired record and presence, and
\* their read calls returned the same result
SameInputs ==
  /\ par["A"].params = par["B"].params
  /\ par["A"].presence = par["B"].presence
  /\ par["A"].found = par["B"].found
  /\ par["A"].existing = par["B"].existing

\* an outcome without the identifier the service assigned to a created resource
WithoutAssignedId(q) ==
  IF par[q].plans[1].act = "create"
  THEN [par[q].outcomes[1] EXCEPT !.data = PopAll(@, {"id"})]
  ELSE par[q].outcomes[1]

FieldIndex(f) == CHOOSE i \in 1..Len(ParamList(kind)) : ParamList(kind)[i] = f

(***************************************************************************)
(* C37 Diff order.  The warnings of one invocation of the application      *)
(* server, approval or connector schedule module name fields of the kind's *)
(* params list, in the order of that list, each field at most once, and    *)
(* never the id field.                                                     *)
(***************************************************************************)
C37_DiffOrder ==
  kind \in {"server", "approval", "schedule"}
  => /\ \A i \in 1..Len(warns) : warns[i] \in Range(ParamList(kind)) \ {"id"}
     /\ \A i, j \in 1..Len(warns) : i < j => FieldIndex(warns[i]) < FieldIndex(warns[j])

\* an update of an application server that differs in two fields
C37_Witness ==
  /\ Done
  /\ kind = "server"
  /\ Count("update") = 1
  /\ Len(warns) >= 2

\* the read call of the facts module returned
FactsAnswered == Done /\ Len(calls) = 1 /\ calls[1].res = "ok"

\* credentials of the listing that carry the requested name
NamedCreds == Matches(remote, "name", Get(params, "name"))

\* the only outcome is a failure
FailedOnce == Len(outcomes) = 1 /\ outcomes[1].type = "fail"

(***************************************************************************)
(* C38 Credential facts lookup is read-only.  An invocation of the         *)
(* credential facts module never issues a mutating call and leaves the     *)
(* remote service as it was; when it has ended it has issued exactly one   *)
(* read call, a get by id when an id was given and a listing otherwise,    *)
(* and any exit_json reports changed=false.  When the read call returned:  *)
(* an id that no credential has is a failure; without id, a name that no   *)
(* listed credential has is a failure; and a name that one or several      *)
(* listed credentials have gives changed=false with exactly one            *)
(* credential, the last of that name in listing order.                     *)
(***************************************************************************)
C38_FactsReadOnly ==
  /\ Mutations = 0
  /\ remote = remote0
  /\ \A i \in 1..Len(outcomes) : outcomes[i].type = "exit" => ~outcomes[i].changed
  /\ Done
       => /\ Len(calls) = 1
          /\ calls[1].op = (IF Get(params, "id") # None THEN "get" ELSE "list")
          /\ Len(outcomes) = 1
  /\ (FactsAnswered /\ Get(params, "id") # None)
       => IF Matches(remote, "id", Get(params, "id")) = {}
          THEN FailedOnce
          ELSE /\ ExitedWith(FALSE)
               /\ Len(outcomes[1].data) = 1
               /\ Get(outcomes[1].data[1], "id") = Get(params, "id")
  /\ (FactsAnswered /\ Get(params, "id") = None /\ Get(params, "name") # None)
       => IF NamedCreds = {}
          THEN FailedOnce
          ELSE /\ ExitedWith(FALSE)
               /\ outcomes[1].data = <<remote[Max(NamedCreds)]>>

\* two listed credentials share the requested name: the later one is returned
C38_Witness ==
  /\ FactsAnswered
  /\ Get(params, "id") = None
  /\ Cardinality(NamedCreds) = 2
  /\ ExitedWith(FALSE)
  /\ outcomes[1].data = <<remote[Max(NamedCreds)]>>
  /\ outcomes[1].data # <<remote[Min(NamedCreds)]>>

====
